---- MODULE Spec2Model ----
(***************************************************************************)
(* State-machine model of stylegan2/renderer.py: the Synthesis ladder      *)
(* (construction and style-index wiring), the Renderer forward call        *)
(* (mapping, moving average of w, style mixing, truncation, synthesis)     *)
(* and Renderer.set_as_moving_average_of (name-matched EMA of weights).    *)
(*                                                                         *)
(* Style codes are modelled per broadcast position by one integer (every   *)
(* operation of the Renderer on them is elementwise over w_dim).  Python   *)
(* positions are 0-based; a TLA+ sequence s holds position p at s[p + 1].  *)
(* Interpolation weights are fixed-point numbers with denominator Unit.    *)
(***************************************************************************)
EXTENDS Integers, Sequences, FiniteSets, TLC

\* ------------------------------------------------------------------ bounds
MaxLadder == 3          \* longest resolutions / featuremaps list given to Synthesis
MaxRendererLadder == 2  \* longest (valid) ladder a Renderer is constructed with
BatchSize == 2          \* samples per forward call
Unit == 2               \* denominator of the fixed-point weights: t stands for t / Unit
MaxWeights == 2         \* longest weight list of a network given to the EMA-sync

\* --------------------------------------------------------------- constants
BaseRes == 4        \* assert res == 4 in SynthesisConstBlock.__init__

VARIABLES
    \* Synthesis
    resolutions,    \* Synthesis.resolutions (constructor argument)
    featuremaps,    \* Synthesis.featuremaps (constructor argument)
    spc,            \* position of the Synthesis object / of Synthesis.call
    blocks,         \* Synthesis.blocks, one record per SynthesisBlock
    n_broadcast,    \* Renderer.n_broadcast
    layer_index,    \* local layer_index of Synthesis.call
    k,              \* number of loop iterations of Synthesis.call done
    reads,          \* style positions read so far in this call, per site
    \* Renderer
    pc,                     \* "new", "idle", the last stage of Renderer.call run, "ema_done", "aborted"
    truncation_psi,         \* g_params['truncation_psi'], fixed point over Unit
    truncation_cutoff,      \* g_params['truncation_cutoff']: <<>> is None, <<c>> the integer c
    style_mixing_prob,      \* g_params['style_mixing_prob'], fixed point over Unit
    w_ema_decay,            \* g_params['w_ema_decay'], fixed point over Unit
    truncation_coefs,       \* Renderer.truncation_coefs, one coefficient per position
    built,                  \* Renderer.build has run
    trainable_weights,      \* Renderer.trainable_weights, records [name, shape, val]
    non_trainable_weights,  \* Renderer.non_trainable_weights (w_avg once built)
    training,               \* the training argument of the running call
    w_broadcasted,          \* local w_broadcasted of Renderer.call: [sample][position]
    w_mapped,               \* history: what g_mapping(x) returned in this call
    mix,                    \* history: the draws of style_mixing_regularization, <<>> if none
    trace,                  \* history: the stages run in this call, in order
    assigns,                \* history: number of w_avg.assign calls made in this call
    w_avg_assigned,         \* history: w_avg was assigned since it was created
    src_net,                \* the source network of the EMA-sync: its two weight lists
    sync                    \* history: arguments and effect of the EMA-sync just returned, <<>> if none

synthVars == <<resolutions, featuremaps, spc, blocks, n_broadcast, layer_index, k, reads>>

paramVars == <<truncation_psi, truncation_cutoff, style_mixing_prob, w_ema_decay, truncation_coefs>>

weightVars == <<built, trainable_weights, non_trainable_weights, w_avg_assigned>>

callVars == <<training, w_broadcasted, w_mapped, mix, trace, assigns>>

rendVars == <<pc, paramVars, weightVars, callVars, src_net, sync>>

vars == <<synthVars, rendVars>>

\* ------------------------------------------------------------- helpers
Min(a, b) == IF a < b THEN a ELSE b

\* all sequences over S of length 0..n
SeqsUpTo(S, n) == UNION {[1..m -> S] : m \in 0..n}

\* Python s[1:]
Rest(s) == IF Len(s) = 0 THEN <<>> ELSE Tail(s)

\* Python zip(a, b): pairs up to the shorter of the two
Zip(a, b) == [i \in 1..Min(Len(a), Len(b)) |-> <<a[i], b[i]>>]

ResValues == {4, 8, 16}
FmapValues == {256, 512}

\* ---------------------------------------------------- Synthesis.__init__
\* The construction raises when resolutions[0] / featuremaps[0] do not exist
\* (IndexError) or when the const block's assert res == 4 fails.
ConstructionRaises(res, fm) ==
    \/ Len(res) = 0
    \/ Len(fm) = 0
    \/ res[1] # BaseRes

\* the SynthesisBlock list built by the loop over zip(resolutions[1:], featuremaps[1:])
BuildBlocks(res, fm) ==
    LET z == Zip(Rest(res), Rest(fm))
    IN  [i \in 1..Len(z) |->
            [in_channel |-> IF i = 1 THEN fm[1] ELSE z[i - 1][2],
             fmaps      |-> z[i][2],
             res        |-> z[i][1]]]

\* Renderer.__init__: n_broadcast = len(resolutions) * 2
NBroadcast(res) == Len(res) * 2

SynthesisInit(res, fm) ==
    /\ spc = "new"
    /\ resolutions' = res
    /\ featuremaps' = fm
    /\ n_broadcast' = NBroadcast(res)
    /\ IF ConstructionRaises(res, fm)
         THEN /\ spc' = "failed"
              /\ blocks' = <<>>
         ELSE /\ spc' = "constructed"
              /\ blocks' = BuildBlocks(res, fm)
    /\ UNCHANGED <<layer_index, k, reads>>

\* ------------------------------------------------------- Synthesis.call
Read(site, blk, pos) == [site |-> site, block |-> blk, pos |-> pos]

\* indexing w_broadcasted[:, pos] outside 0..n-1 raises
InRange(pos, n) == pos >= 0 /\ pos < n

AllInRange(rs, n) == \A i \in 1..Len(rs) : InRange(rs[i].pos, n)

\* initial layer: w0, w1 = w_broadcasted[:, 0], w_broadcasted[:, 1];
\* the const block's conv reads w0, the initial ToRGB reads w1
InitialReads == <<Read("const_conv", 0, 0), Read("initial_torgb", 0, 1)>>

\* layer_index = 1 before the loop
FirstLayerIndex == 1

\* (mutant) a wiring that gives every site a position of its own
BlockReads_Disjoint(blk, li) ==
    <<Read("conv_0", blk, li + 1), Read("conv_1", blk, li + 2), Read("torgb", blk, li + 3)>>

\* one loop iteration at cursor li: w0, w1, w2 = positions li, li + 1, li + 2;
\* block([x, w0, w1]) and torgb([x, y, w2])
BlockReads(blk, li) ==
    <<Read("conv_0", blk, li), Read("conv_1", blk, li + 1), Read("torgb", blk, li + 2)>>

\* (mutant) layer_index += 1
AdvanceLayerIndex_ByOne(li) == li + 1

\* layer_index += 2
AdvanceLayerIndex(li) == li + 2

SynthesisCallBegin ==
    /\ spc \in {"constructed", "done"}
    /\ IF AllInRange(InitialReads, n_broadcast)
         THEN /\ reads' = InitialReads
              /\ layer_index' = FirstLayerIndex
              /\ k' = 0
              /\ spc' = "loop"
         ELSE /\ spc' = "call_error"
              /\ UNCHANGED <<reads, layer_index, k>>
    /\ UNCHANGED <<resolutions, featuremaps, blocks, n_broadcast>>
    /\ UNCHANGED rendVars

\* one iteration of the loop over zip(blocks, upscales, torgbs)
SynthesisCallStep ==
    /\ spc = "loop"
    /\ k < Len(blocks)
    /\ IF AllInRange(BlockReads(k + 1, layer_index), n_broadcast)
         THEN /\ reads' = reads \o BlockReads(k + 1, layer_index)
              /\ layer_index' = AdvanceLayerIndex(layer_index)
              /\ k' = k + 1
              /\ spc' = "loop"
         ELSE /\ spc' = "call_error"
              /\ UNCHANGED <<reads, layer_index, k>>
    /\ UNCHANGED <<resolutions, featuremaps, blocks, n_broadcast>>
    /\ UNCHANGED rendVars

\* the loop is exhausted: images_out = y
SynthesisCallEnd ==
    /\ spc = "loop"
    /\ k = Len(blocks)
    /\ spc' = "done"
    /\ UNCHANGED <<resolutions, featuremaps, blocks, n_broadcast, layer_index, k, reads>>
    /\ UNCHANGED rendVars

\* the whole of Synthesis.call, as Renderer.call runs it: the cursor and the
\* reads after nb loop iterations, or raised when a read is out of range
RECURSIVE SynthesisLoop(_, _, _, _, _)
SynthesisLoop(kk, nb, li, rs, n) ==
    IF kk = nb
      THEN [raised |-> FALSE, layer_index |-> li, k |-> kk, reads |-> rs]
      ELSE IF AllInRange(BlockReads(kk + 1, li), n)
             THEN SynthesisLoop(kk + 1, nb, AdvanceLayerIndex(li), rs \o BlockReads(kk + 1, li), n)
             ELSE [raised |-> TRUE, layer_index |-> li, k |-> kk, reads |-> rs]

SynthesisCall(nb, n) ==
    IF AllInRange(InitialReads, n)
      THEN SynthesisLoop(0, nb, FirstLayerIndex, InitialReads, n)
      ELSE [raised |-> TRUE, layer_index |-> 0, k |-> 0, reads |-> <<>>]

\* ------------------------------------------------------------- initial state
SynthInit ==
    /\ resolutions = <<>>
    /\ featuremaps = <<>>
    /\ spc = "new"
    /\ blocks = <<>>
    /\ n_broadcast = 0
    /\ layer_index = 0
    /\ k = 0
    /\ reads = <<>>

Net(tw, ntw) == [trainable_weights |-> tw, non_trainable_weights |-> ntw]

NoNet == Net(<<>>, <<>>)

NoCall ==
    /\ training = "None"
    /\ w_broadcasted = <<>>
    /\ w_mapped = <<>>
    /\ mix = <<>>
    /\ trace = <<>>
    /\ assigns = 0

RendInit ==
    /\ pc = "new"
    /\ truncation_psi = 0
    /\ truncation_cutoff = <<>>
    /\ style_mixing_prob = 0
    /\ w_ema_decay = 0
    /\ truncation_coefs = <<>>
    /\ built = FALSE
    /\ trainable_weights = <<>>
    /\ non_trainable_weights = <<>>
    /\ w_avg_assigned = FALSE
    /\ NoCall
    /\ src_net = NoNet
    /\ sync = <<>>

Init == SynthInit /\ RendInit

\* ------------------------------------------------------ commons.utils.lerp
\* lerp(a, b, t) = a + (b - a) * t, with t = tn / Unit
lerp(a, b, tn) == a + ((b - a) * tn) \div Unit

\* -------------------------------------------------------- Renderer.__init__
\* (mutant) the coefficients start from zeros instead of ones
TruncationCoefs_FromZeros(n, psi, cutoff) ==
    IF cutoff = <<>>
      THEN [i \in 1..n |-> (Unit * psi) \div Unit]
      ELSE [i \in 1..n |-> IF (i - 1) < cutoff[1] THEN psi ELSE 0]

\* truncation_coefs: ones * truncation_psi when truncation_cutoff is None, else
\* ones with truncation_psi at every index < truncation_cutoff
TruncationCoefs(n, psi, cutoff) ==
    IF cutoff = <<>>
      THEN [i \in 1..n |-> (Unit * psi) \div Unit]
      ELSE [i \in 1..n |-> IF (i - 1) < cutoff[1] THEN psi ELSE Unit]

\* the ladders a Renderer is constructed with here: 4, 8, 16, ... of length L
\* with as many featuremaps (L = 0 makes the construction raise)
RECURSIVE Doubling(_)
Doubling(L) == IF L = 0 THEN <<>> ELSE IF L = 1 THEN <<BaseRes>> ELSE
                  LET d == Doubling(L - 1) IN Append(d, 2 * d[L - 1])

PsiValues == {Unit \div 2, Unit}
CutoffValues == {<<>>, <<-1>>, <<1>>, <<3>>}
MixingProbValues == {0, Unit \div 2, Unit}
DecayValues == {0, Unit \div 2}
StyleValues == {-4, 4}
TrainingValues == {"True", "False", "None"}

RendererInit(res, fm, psi, cutoff, prob, decay) ==
    /\ pc = "new"
    /\ truncation_psi' = psi
    /\ truncation_cutoff' = cutoff
    /\ style_mixing_prob' = prob
    /\ w_ema_decay' = decay
    /\ truncation_coefs' = TruncationCoefs(NBroadcast(res), psi, cutoff)
    /\ SynthesisInit(res, fm)
    /\ pc' = IF ConstructionRaises(res, fm) THEN "aborted" ELSE "idle"
    /\ UNCHANGED <<weightVars, callVars, src_net, sync>>

\* ----------------------------------------------------------- Renderer.build
\* tf.zeros(shape=[w_dim])
ZeroInit == 0

WAvgName == <<"g", "/", "w">>

Weight(name, shape, val) == [name |-> name, shape |-> shape, val |-> val]

\* (mutant) w_avg initialized to ones
InitialWAvg_Ones == Weight(WAvgName, 1, ZeroInit + 1)

\* tf.Variable(tf.zeros(shape=[self.w_dim]), name='w_avg', trainable=False)
InitialWAvg == Weight(WAvgName, 1, ZeroInit)

\* Renderer.build: self.w_avg = tf.Variable(...); the framework runs build
\* once, before the first call
Build ==
    /\ pc = "idle"
    /\ ~built
    /\ built' = TRUE
    /\ non_trainable_weights' = Append(non_trainable_weights, InitialWAvg)
    /\ UNCHANGED <<trainable_weights, w_avg_assigned>>
    /\ UNCHANGED <<pc, paramVars, callVars, src_net, sync, synthVars>>

\* self.w_avg, read
WAvg == non_trainable_weights[1].val

\* ------------------------------------------------------------ Renderer.call
\* `if training:` - None and False are both false
Truthy(tr) == tr = "True"

\* (mutant) the update and the mixing are not under `if training:`
NextStage_UpdateAlways(stage, tr) ==
    CASE stage = "mapping" -> "w_avg_update"
      [] stage = "w_avg_update" -> "style_mixing"
      [] stage = "style_mixing" ->
            IF ~Truthy(tr) THEN "truncation" ELSE "synthesis"
      [] stage = "truncation" -> "synthesis"
      [] stage = "synthesis" -> "return"
      [] OTHER -> "none"

\* (mutant) the truncation is not under `if not training:`
NextStage_TruncateAlways(stage, tr) ==
    CASE stage = "mapping" ->
            IF Truthy(tr) THEN "w_avg_update" ELSE "truncation"
      [] stage = "w_avg_update" -> "style_mixing"
      [] stage = "style_mixing" -> "truncation"
      [] stage = "truncation" -> "synthesis"
      [] stage = "synthesis" -> "return"
      [] OTHER -> "none"

\* the stage that follows `stage` in Renderer.call: mapping, then the
\* `if training:` block (update, mixing), then the `if not training:` block
\* (truncation), then synthesis, then return
NextStage(stage, tr) ==
    CASE stage = "mapping" ->
            IF Truthy(tr) THEN "w_avg_update"
            ELSE IF ~Truthy(tr) THEN "truncation" ELSE "synthesis"
      [] stage = "w_avg_update" -> "style_mixing"
      [] stage = "style_mixing" ->
            IF ~Truthy(tr) THEN "truncation" ELSE "synthesis"
      [] stage = "truncation" -> "synthesis"
      [] stage = "synthesis" -> "return"
      [] OTHER -> "none"

\* Mapping.call: the dense stack gives one style code per sample (ws), which
\* self.broadcast tiles over the n_broadcast positions
Mapping(ws, n) == [b \in 1..Len(ws) |-> [p \in 1..n |-> ws[b]]]

\* w_broadcasted = self.g_mapping(x)
CallBegin(ws, tr) ==
    /\ pc = "idle"
    /\ built
    /\ training' = tr
    /\ w_broadcasted' = Mapping(ws, n_broadcast)
    /\ w_mapped' = Mapping(ws, n_broadcast)
    /\ mix' = <<>>
    /\ trace' = <<"mapping">>
    /\ assigns' = 0
    /\ pc' = "mapping"
    /\ UNCHANGED <<paramVars, weightVars, src_net, sync, synthVars>>

RECURSIVE SumFirst(_, _)
SumFirst(w, b) == IF b = 0 THEN 0 ELSE w[b][1] + SumFirst(w, b - 1)

\* tf.reduce_mean(w_broadcasted[:, 0], axis=0)
BatchMean(w) == SumFirst(w, Len(w)) \div Len(w)

\* update_moving_average_of_w: self.w_avg.assign(lerp(batch_avg, self.w_avg, self.w_ema_decay))
update_moving_average_of_w ==
    /\ NextStage(pc, training) = "w_avg_update"
    /\ non_trainable_weights' =
          [non_trainable_weights EXCEPT ![1].val = lerp(BatchMean(w_broadcasted), WAvg, w_ema_decay)]
    /\ w_avg_assigned' = TRUE
    /\ assigns' = assigns + 1
    /\ trace' = Append(trace, "w_avg_update")
    /\ pc' = "w_avg_update"
    /\ UNCHANGED <<built, trainable_weights>>
    /\ UNCHANGED <<paramVars, training, w_broadcasted, w_mapped, mix, src_net, sync, synthVars>>

\* (mutant) `<=` for `<`
MixingBranch_Inclusive(u, prob) == u <= prob

\* `if tf.random.uniform([], 0.0, 1.0) < self.style_mixing_prob`, u the draw
MixingBranch(u, prob) == u < prob

\* mixing_cutoff_index: c, drawn by tf.random.uniform([], 1, n_broadcast, int32),
\* when the branch is taken, else n_broadcast
MixingCutoffIndex(branch, c, n) == IF branch THEN c ELSE n

\* tf.where(mixing_layer_indices < mixing_cutoff_index, w_broadcasted1, w_broadcasted2)
MixStyles(w1, w2, cutoff) ==
    [b \in 1..Len(w1) |-> [p \in 1..Len(w1[b]) |->
        IF (p - 1) < cutoff THEN w1[b][p] ELSE w2[b][p]]]

\* style_mixing_regularization, with its random draws: the second latent's
\* style codes w2s, the uniform u in [0, 1) and the cutoff c in [1, n_broadcast)
style_mixing_regularization(w2s, u, c) ==
    /\ NextStage(pc, training) = "style_mixing"
    /\ LET w2 == Mapping(w2s, n_broadcast)
           branch == MixingBranch(u, style_mixing_prob)
           cutoff == MixingCutoffIndex(branch, c, n_broadcast)
       IN  /\ w_broadcasted' = MixStyles(w_broadcasted, w2, cutoff)
           /\ mix' = <<[branch |-> branch, cutoff |-> cutoff, w_broadcasted2 |-> w2]>>
    /\ trace' = Append(trace, "style_mixing")
    /\ pc' = "style_mixing"
    /\ UNCHANGED <<paramVars, weightVars, training, w_mapped, assigns, src_net, sync, synthVars>>

\* lerp(self.w_avg, w_broadcasted, self.truncation_coefs)
Truncate(w, avg, coefs) ==
    [b \in 1..Len(w) |-> [p \in 1..Len(w[b]) |-> lerp(avg, w[b][p], coefs[p])]]

truncation_trick ==
    /\ NextStage(pc, training) = "truncation"
    /\ w_broadcasted' = Truncate(w_broadcasted, WAvg, truncation_coefs)
    /\ trace' = Append(trace, "truncation")
    /\ pc' = "truncation"
    /\ UNCHANGED <<paramVars, weightVars, training, w_mapped, mix, assigns, src_net, sync, synthVars>>

\* image_out = self.synthesis(w_broadcasted)
RunSynthesis ==
    /\ NextStage(pc, training) = "synthesis"
    /\ LET r == SynthesisCall(Len(blocks), n_broadcast)
       IN  /\ layer_index' = r.layer_index
           /\ k' = r.k
           /\ reads' = r.reads
           /\ pc' = IF r.raised THEN "aborted" ELSE "synthesis"
    /\ trace' = Append(trace, "synthesis")
    /\ UNCHANGED weightVars
    /\ UNCHANGED <<paramVars, training, w_broadcasted, w_mapped, mix, assigns, src_net, sync>>
    /\ UNCHANGED <<resolutions, featuremaps, spc, blocks, n_broadcast>>

\* return image_out: the locals of the call are gone
Return ==
    /\ NextStage(pc, training) = "return"
    /\ pc' = "idle"
    /\ training' = "None"
    /\ w_broadcasted' = <<>>
    /\ w_mapped' = <<>>
    /\ mix' = <<>>
    /\ trace' = <<>>
    /\ assigns' = 0
    /\ UNCHANGED <<paramVars, weightVars, src_net, sync, synthVars>>

\* ------------------------------------- Renderer.set_as_moving_average_of
\* A name is the sequence of its characters.
HasSlash(name) == \E i \in 1..Len(name) : name[i] = "/"

FirstSlash(name) == CHOOSE i \in 1..Len(name) :
                        /\ name[i] = "/"
                        /\ \A j \in 1..(i - 1) : name[j] # "/"

\* name.split('/')
RECURSIVE Split(_)
Split(name) ==
    IF ~HasSlash(name)
      THEN <<name>>
      ELSE LET i == FirstSlash(name)
           IN  <<SubSeq(name, 1, i - 1)>> \o Split(SubSeq(name, i + 1, Len(name)))

\* '/'.join(parts)
RECURSIVE Join(_)
Join(parts) ==
    IF Len(parts) = 0 THEN <<>>
    ELSE IF Len(parts) = 1 THEN parts[1]
    ELSE parts[1] \o <<"/">> \o Join(Tail(parts))

\* split_first_name: '/'.join(name.split('/')[1:])
split_first_name(name) == Join(Rest(Split(name)))

\* the inner loop's test: cw_name == sw_name
NamesMatch(cw, sw) == split_first_name(cw.name) = split_first_name(sw.name)

\* (mutant) the inner loop without its break: every match assigns
AssignSources_NoBreak(cw, sws) ==
    LET m == {j \in 1..Len(sws) : NamesMatch(cw, sws[j])}
        RECURSIVE Asc(_, _)
        Asc(j, acc) == IF j > Len(sws) THEN acc
                       ELSE Asc(j + 1, IF j \in m THEN Append(acc, j) ELSE acc)
    IN  Asc(1, <<>>)

\* the source weights the inner loop assigns cw from: the first one whose
\* name matches, after which the loop breaks
AssignSources(cw, sws) ==
    LET m == {j \in 1..Len(sws) : NamesMatch(cw, sws[j])}
    IN  IF m = {} THEN <<>> ELSE <<CHOOSE j \in m : \A i \in m : j <= i>>

\* (mutant) lerp(cw, sw, beta)
EmaValue_Swapped(sw, cw, beta) == lerp(cw.val, sw.val, beta)

\* lerp(sw, cw, beta)
EmaValue(sw, cw, beta) == lerp(sw.val, cw.val, beta)

\* the inner loop for one cw: assert sw.shape == cw.shape; cw.assign(lerp(sw, cw, beta))
RECURSIVE AssignFrom(_, _, _, _, _, _)
AssignFrom(cw, target, sws, from, n, beta) ==
    IF n > Len(from)
      THEN [raised |-> FALSE, w |-> cw, log |-> <<>>]
      ELSE LET sw == sws[from[n]]
           IN  IF sw.shape # cw.shape
                 THEN [raised |-> TRUE, w |-> cw, log |-> <<>>]
                 ELSE LET new == [cw EXCEPT !.val = EmaValue(sw, cw, beta)]
                          rest == AssignFrom(new, target, sws, from, n + 1, beta)
                      IN  [raised |-> rest.raised, w |-> rest.w,
                           log |-> <<[target |-> target, source |-> from[n]]>> \o rest.log]

\* one of the two outer loops, from cws[i] on; an AssertionError ends it and
\* leaves the weights after the failing one as they were
RECURSIVE EmaLoop(_, _, _, _)
EmaLoop(cws, sws, beta, i) ==
    IF i > Len(cws)
      THEN [raised |-> FALSE, weights |-> <<>>, log |-> <<>>]
      ELSE LET r == AssignFrom(cws[i], i, sws, AssignSources(cws[i], sws), 1, beta)
           IN  IF r.raised
                 THEN [raised |-> TRUE,
                       weights |-> <<r.w>> \o SubSeq(cws, i + 1, Len(cws)),
                       log |-> r.log]
                 ELSE LET rest == EmaLoop(cws, sws, beta, i + 1)
                      IN  [raised |-> rest.raised,
                           weights |-> <<r.w>> \o rest.weights,
                           log |-> r.log \o rest.log]

\* the whole method: the loop over trainable_weights with beta, then the loop
\* over non_trainable_weights with beta_nontrainable; src is only read
set_as_moving_average_of(src, beta, beta_nt) ==
    /\ pc = "idle"
    /\ LET t == EmaLoop(trainable_weights, src.trainable_weights, beta, 1)
           n == IF t.raised
                  THEN [raised |-> TRUE, weights |-> non_trainable_weights, log |-> <<>>]
                  ELSE EmaLoop(non_trainable_weights, src.non_trainable_weights, beta_nt, 1)
       IN  /\ trainable_weights' = t.weights
           /\ non_trainable_weights' = n.weights
           /\ w_avg_assigned' = (w_avg_assigned \/ n.log # <<>>)
           /\ src_net' = src
           /\ sync' = <<[src |-> src,
                         beta |-> beta, beta_nontrainable |-> beta_nt,
                         old_trainable |-> trainable_weights,
                         old_non_trainable |-> non_trainable_weights,
                         log_trainable |-> t.log, log_non_trainable |-> n.log,
                         raised |-> n.raised]>>
           /\ pc' = IF n.raised THEN "aborted" ELSE "ema_done"
    /\ UNCHANGED <<built, paramVars, callVars, synthVars>>

\* the method returns; the caller's reference to the source network is gone
SyncReturn ==
    /\ pc = "ema_done"
    /\ pc' = "idle"
    /\ sync' = <<>>
    /\ src_net' = NoNet
    /\ UNCHANGED <<paramVars, weightVars, callVars, synthVars>>

\* ------------------------------------------------ the Renderer's life cycle
BetaPairs == {<<0, 0>>, <<Unit, Unit>>, <<Unit \div 2, 0>>}

\* source networks of the Renderer's EMA-sync: another Renderer, built or not,
\* its w_avg possibly of another w_dim (the weights of the sublayers, which no
\* stage modelled here reads, are left out of both networks)
RendererSources ==
    {Net(<<>>, sn) : sn \in {<<>>} \cup {<<Weight(<<"s", "/", "w">>, sh, v)>> :
                                            sh \in {1, 2}, v \in StyleValues}}

NewRenderer ==
    \E L \in 0..MaxRendererLadder, psi \in PsiValues, cutoff \in CutoffValues,
       prob \in MixingProbValues, decay \in DecayValues :
        RendererInit(Doubling(L), [i \in 1..L |-> 512], psi, cutoff, prob, decay)

Call == \E ws \in [1..BatchSize -> StyleValues], tr \in TrainingValues : CallBegin(ws, tr)

StyleMixing ==
    \E w2s \in [1..BatchSize -> StyleValues], u \in 0..(Unit - 1), c \in 1..(n_broadcast - 1) :
        style_mixing_regularization(w2s, u, c)

RendererSync ==
    \E src \in RendererSources, b \in BetaPairs :
        set_as_moving_average_of(src, b[1], b[2])

Next ==
    \/ NewRenderer
    \/ Build
    \/ Call
    \/ update_moving_average_of_w
    \/ StyleMixing
    \/ truncation_trick
    \/ RunSynthesis
    \/ Return
    \/ RendererSync
    \/ SyncReturn

Spec == Init /\ [][Next]_vars

\* ------------------------------------------------- the EMA-sync on its own
\* Two arbitrary networks: each a list of weights, trainable or not, whose
\* names have a scope prefix or none; trainable_weights and
\* non_trainable_weights are the two sublists, in order.
PrimaryKinds == {<<"g", "/", "w">>, <<"w">>} \X BOOLEAN \X {1}
SourceKinds ==
    ({<<"s", "/", "w">>, <<"s", "/", "c">>, <<"c">>} \X BOOLEAN \X {1})
        \cup ({<<"s", "/", "w">>} \X BOOLEAN \X {2})

RECURSIVE Pick(_, _)
Pick(l, flag) ==
    IF l = <<>> THEN <<>>
    ELSE (IF Head(l).trainable = flag
            THEN <<Weight(Head(l).name, Head(l).shape, Head(l).val)>>
            ELSE <<>>) \o Pick(Tail(l), flag)

\* the networks of at most MaxWeights weights of the given kinds; the i-th
\* weight holds the value scale * i
Networks(kinds, scale) ==
    {LET ws == [i \in 1..Len(l) |-> [name |-> l[i][1], trainable |-> l[i][2],
                                      shape |-> l[i][3], val |-> scale * i]]
     IN  Net(Pick(ws, TRUE), Pick(ws, FALSE)) : l \in SeqsUpTo(kinds, MaxWeights)}

EmaInit ==
    /\ SynthInit
    /\ pc = "idle"
    /\ truncation_psi = 0
    /\ truncation_cutoff = <<>>
    /\ style_mixing_prob = 0
    /\ w_ema_decay = 0
    /\ truncation_coefs = <<>>
    /\ built = TRUE
    /\ \E net \in Networks(PrimaryKinds, -4) :
          /\ trainable_weights = net.trainable_weights
          /\ non_trainable_weights = net.non_trainable_weights
    /\ w_avg_assigned = FALSE
    /\ NoCall
    /\ src_net \in Networks(SourceKinds, 8)
    /\ sync = <<>>

EmaSync == \E b \in BetaPairs : set_as_moving_average_of(src_net, b[1], b[2])

EmaNext == EmaSync

SpecEMA == EmaInit /\ [][EmaNext]_vars

\* -------------------------------------------- the Synthesis ladder on its own
Construct ==
    /\ \E res \in SeqsUpTo(ResValues, MaxLadder), fm \in SeqsUpTo(FmapValues, MaxLadder) :
          SynthesisInit(res, fm)
    /\ UNCHANGED rendVars

SynthNext ==
    \/ Construct
    \/ SynthesisCallBegin
    \/ SynthesisCallStep
    \/ SynthesisCallEnd

SpecSynthesis == Init /\ [][SynthNext]_vars

\* ---------------------------------------------------- claims: Synthesis
\* the ladder given to the constructor is valid: equal lengths >= 1
ValidLadder == Len(resolutions) = Len(featuremaps) /\ Len(resolutions) >= 1

PositionsRead == {reads[i].pos : i \in 1..Len(reads)}

SitesAt(p) == {reads[i].site : i \in {j \in 1..Len(reads) : reads[j].pos = p}}

ReadsAt(p) == Cardinality({i \in 1..Len(reads) : reads[i].pos = p})

Highest(S) == CHOOSE x \in S : \A y \in S : y <= x

\* C5 as stated: for every valid ladder n_broadcast = 2 * len(resolutions) and
\* layer_index is exactly n_broadcast once Synthesis.call has processed the
\* last resolution step.
C5_CursorReachesNBroadcast ==
    (spc = "done" /\ ValidLadder) =>
        /\ n_broadcast = 2 * Len(resolutions)
        /\ layer_index = n_broadcast

\* C5 amended: for every valid ladder n_broadcast = 2 * len(resolutions), the
\* call never indexes outside the style tensor, and once the last resolution
\* step is processed layer_index is exactly n_broadcast - 1, the last style
\* position, which is also the highest position read.
C5_CursorEndsAtLastPosition ==
    (spc \in {"constructed", "loop", "done", "call_error"} /\ ValidLadder) =>
        /\ n_broadcast = 2 * Len(resolutions)
        /\ spc # "call_error"
        /\ spc = "done" =>
              /\ k = Len(resolutions) - 1
              /\ layer_index = n_broadcast - 1
              /\ Highest(PositionsRead) = n_broadcast - 1

C5_Witness ==
    /\ spc = "done"
    /\ ValidLadder
    /\ Len(resolutions) = MaxLadder
    /\ layer_index = 2 * MaxLadder - 1

\* C6 as stated: constructing the generator fails whenever resolutions does
\* not start at the base resolution 4 or len(resolutions) # len(featuremaps).
C6_BadLadderFailsConstruction ==
    (/\ spc # "new"
     /\ \/ Len(resolutions) = 0
        \/ resolutions[1] # BaseRes
        \/ Len(resolutions) # Len(featuremaps)) => spc = "failed"

\* C10 as stated: for every valid ladder Synthesis.call reads only positions
\* 0..n_broadcast-1 and each of these positions is read by exactly one
\* modulation site.
C10_EachPositionOneSite ==
    (spc = "done" /\ ValidLadder) =>
        /\ AllInRange(reads, n_broadcast)
        /\ \A p \in 0..(n_broadcast - 1) : ReadsAt(p) = 1

\* C10 amended: for every valid ladder Synthesis.call reads only positions
\* 0..n_broadcast-1 and every one of them: position 0 by the const block's conv
\* alone, every even position >= 2 by one block's conv 1 alone, the last
\* position by the last ToRGB alone, and every odd position below the last by
\* two sites, the ToRGB of one resolution and conv 0 of the next block.
C10_PositionsSharedByToRGBAndConv0 ==
    (spc \in {"constructed", "loop", "done", "call_error"} /\ ValidLadder) =>
        /\ spc # "call_error"
        /\ AllInRange(reads, n_broadcast)
        /\ spc = "done" =>
              \A p \in 0..(n_broadcast - 1) :
                  /\ SitesAt(p) =
                        IF p = 0 THEN {"const_conv"}
                        ELSE IF p % 2 = 0 THEN {"conv_1"}
                        ELSE IF p = n_broadcast - 1
                               THEN {IF p = 1 THEN "initial_torgb" ELSE "torgb"}
                               ELSE {IF p = 1 THEN "initial_torgb" ELSE "torgb", "conv_0"}
                  /\ ReadsAt(p) = Cardinality(SitesAt(p))

C10_Witness ==
    /\ spc = "done"
    /\ ValidLadder
    /\ Len(resolutions) = MaxLadder
    /\ ReadsAt(1) = 2
    /\ ReadsAt(2 * MaxLadder - 3) = 2
    /\ ReadsAt(2 * MaxLadder - 1) = 1

\* ------------------------------------------------------ claims: Renderer
CallStages == {"mapping", "w_avg_update", "style_mixing", "truncation", "synthesis"}

C2_StyleMixingByCutoff ==
    pc = "style_mixing" =>
        LET m  == mix[1]
            w1 == w_mapped
            w2 == m.w_broadcasted2
        IN  /\ m.cutoff \in (IF m.branch THEN 1..(n_broadcast - 1) ELSE {n_broadcast})
            /\ \A b \in 1..BatchSize : \A i \in 0..(n_broadcast - 1) :
                  w_broadcasted[b][i + 1] = IF i < m.cutoff THEN w1[b][i + 1] ELSE w2[b][i + 1]
            /\ style_mixing_prob = 0 => (~m.branch /\ w_broadcasted = w1)
            /\ style_mixing_prob = Unit => m.branch
            /\ (style_mixing_prob = Unit /\ m.cutoff = 1) =>
                  \A b \in 1..BatchSize :
                      /\ w_broadcasted[b][1] = w1[b][1]
                      /\ \A i \in 1..(n_broadcast - 1) : w_broadcasted[b][i + 1] = w2[b][i + 1]

C2_Witness ==
    /\ pc = "style_mixing"
    /\ style_mixing_prob = Unit
    /\ mix[1].cutoff = 1
    /\ n_broadcast = 4
    /\ \A b \in 1..BatchSize : mix[1].w_broadcasted2[b][1] # w_mapped[b][1]
    /\ w_broadcasted # w_mapped

\* C3: with truncation_psi = 1.0 the truncation trick returns w_broadcasted
\* unchanged at every position, whatever w_avg and truncation_cutoff are.
C3_TruncationIdentityAtPsiOne ==
    (pc = "truncation" /\ truncation_psi = Unit) =>
        \A b \in 1..BatchSize : \A i \in 0..(n_broadcast - 1) :
            w_broadcasted[b][i + 1] = w_mapped[b][i + 1]

C3_Witness ==
    /\ pc = "truncation"
    /\ truncation_psi = Unit
    /\ truncation_cutoff = <<1>>
    /\ n_broadcast = 4
    /\ w_avg_assigned
    /\ \A b \in 1..BatchSize : WAvg # w_mapped[b][1]

\* the stages of a call in training mode and in inference mode
TrainingStages == <<"mapping", "w_avg_update", "style_mixing", "synthesis">>
InferenceStages == <<"mapping", "truncation", "synthesis">>

IsPrefix(a, b) == Len(a) <= Len(b) /\ SubSeq(b, 1, Len(a)) = a

\* C7: the stages of a forward call run in a fixed order given by the mode:
\* training True runs mapping, w_avg update, style mixing, synthesis and no
\* truncation; training False or None runs mapping, truncation, synthesis and
\* neither the w_avg update nor style mixing; and the w_avg update lerps from
\* the batch mean of the unmixed tensor that the mapping returned.
C7_StageOrderByMode ==
    /\ [](pc \in CallStages =>
            LET expected == IF training = "True" THEN TrainingStages ELSE InferenceStages
            IN  /\ IsPrefix(trace, expected)
                /\ trace[Len(trace)] = pc
                /\ pc = "synthesis" => trace = expected
                /\ (mix # <<>>) = (training = "True" /\ Len(trace) >= 3))
    /\ [][pc' = "w_avg_update" =>
            /\ w_broadcasted = w_mapped
            /\ mix = <<>>
            /\ WAvg' = lerp(BatchMean(w_mapped), WAvg, w_ema_decay)]_vars

C7_Witness ==
    /\ pc = "synthesis"
    /\ training = "True"
    /\ trace = TrainingStages
    /\ w_broadcasted # w_mapped

\* C8 as stated: in every state after construction and before the first
\* assignment of w_avg by a training-mode call or an EMA-sync, w_avg is a
\* parameter of the network and is all zeros.
C8_WAvgZeroFromConstruction ==
    (pc \in {"idle", "ema_done"} /\ ~w_avg_assigned) =>
        /\ Len(non_trainable_weights) = 1
        /\ non_trainable_weights[1].name = WAvgName
        /\ non_trainable_weights[1].val = 0

\* C8 amended: w_avg is zero-initialized by Renderer.build, not by the
\* constructor: between construction and build the network has no w_avg (its
\* non_trainable_weights is empty), and from build until the first assignment
\* by a training-mode call or an EMA-sync w_avg is its one non-trainable
\* parameter and is all zeros.
C8_WAvgZeroFromBuild ==
    pc # "new" =>
        IF built
          THEN /\ Len(non_trainable_weights) = 1
               /\ non_trainable_weights[1].name = WAvgName
               /\ ~w_avg_assigned => non_trainable_weights[1].val = 0
          ELSE /\ non_trainable_weights = <<>>
               /\ ~w_avg_assigned
               /\ pc \notin CallStages

C8_Witness ==
    /\ pc = "truncation"
    /\ built
    /\ ~w_avg_assigned
    /\ non_trainable_weights[1].val = 0
    /\ truncation_psi # Unit
    /\ w_broadcasted # w_mapped

\* ------------------------------------------------------ claims: EMA-sync
\* what is left of a name once its top-level scope prefix, the text up to and
\* including the first '/', is ignored (a name without '/' is all prefix)
AfterPrefix(name) ==
    LET slashes == {i \in 1..Len(name) : name[i] = "/"}
    IN  IF slashes = {} THEN <<>>
        ELSE LET f == CHOOSE i \in slashes : \A j \in slashes : i <= j
             IN  [i \in 1..(Len(name) - f) |-> name[f + i]]

\* the source weights of list sws whose names agree with cw's after the prefix
Agreeing(cw, sws) == {j \in 1..Len(sws) : AfterPrefix(cw.name) = AfterPrefix(sws[j].name)}

Lowest(S) == CHOOSE x \in S : \A y \in S : x <= y

TimesAssigned(log, i) == Cardinality({e \in 1..Len(log) : log[e].target = i})

\* list `new` is list `old` with every weight that has an agreeing weight in
\* sws set to that weight's value, and the others as they were
EqualsSourceWhereMatched(old, new, sws) ==
    /\ Len(new) = Len(old)
    /\ \A i \in 1..Len(old) :
          IF Agreeing(old[i], sws) = {}
            THEN new[i] = old[i]
            ELSE new[i] = [old[i] EXCEPT !.val = sws[Lowest(Agreeing(old[i], sws))].val]

PrimaryBefore ==
    {<<"t", i>> : i \in 1..Len(sync[1].old_trainable)}
        \cup {<<"n", i>> : i \in 1..Len(sync[1].old_non_trainable)}

OldWeight(q) == IF q[1] = "t" THEN sync[1].old_trainable[q[2]] ELSE sync[1].old_non_trainable[q[2]]

NewWeight(q) == IF q[1] = "t" THEN trainable_weights[q[2]] ELSE non_trainable_weights[q[2]]

LogOf(q) == IF q[1] = "t" THEN sync[1].log_trainable ELSE sync[1].log_non_trainable

HasPrefix(name) == \E i \in 1..Len(name) : name[i] = "/"

\* C9 as stated, for the primary weights whose names have a scope prefix: a
\* sync that returns updates such a weight exactly when some weight of the
\* source network has the same name after the top-level scope prefix, and
\* then assigns it once.
C9_PairedExactlyWhenNamesAgree ==
    (pc = "ema_done" /\ sync # <<>>) =>
        \A q \in PrimaryBefore :
            LET anywhere == Agreeing(OldWeight(q), sync[1].src.trainable_weights) # {}
                            \/ Agreeing(OldWeight(q), sync[1].src.non_trainable_weights) # {}
            IN  HasPrefix(OldWeight(q).name) =>
                    TimesAssigned(LogOf(q), q[2]) = IF anywhere THEN 1 ELSE 0

\* the effect of one of the two loops on its list
LoopEffect(old, new, sws, log, beta) ==
    /\ Len(new) = Len(old)
    /\ \A e \in 1..Len(log) : log[e].target \in 1..Len(old)
    /\ \A i \in 1..Len(old) :
          IF Agreeing(old[i], sws) = {}
            THEN /\ TimesAssigned(log, i) = 0
                 /\ new[i] = old[i]
            ELSE LET first == Lowest(Agreeing(old[i], sws))
                 IN  /\ TimesAssigned(log, i) = 1
                     /\ \A e \in 1..Len(log) : log[e].target = i => log[e].source = first
                     /\ new[i] = [old[i] EXCEPT !.val = lerp(sws[first].val, old[i].val, beta)]

\* C9 amended: a sync that returns updates a primary weight from a source
\* weight exactly when the two are in the same weight list (both trainable or
\* both non-trainable) and their names are identical after the top-level
\* scope prefix (a name without '/' being all prefix); each such primary
\* weight is assigned once, from the first such source weight of that list;
\* every other primary weight and every source weight is left unchanged.
C9_PairedWithinTheSameList ==
    (pc = "ema_done" /\ sync # <<>>) =>
        LET y == sync[1]
        IN  /\ LoopEffect(y.old_trainable, trainable_weights, y.src.trainable_weights,
                          y.log_trainable, y.beta)
            /\ LoopEffect(y.old_non_trainable, non_trainable_weights,
                          y.src.non_trainable_weights, y.log_non_trainable,
                          y.beta_nontrainable)
            /\ src_net = y.src

\* a primary weight with two agreeing source weights in its list, one whose
\* only agreeing source weight is in the other list, and one with none
C9_Witness ==
    /\ pc = "ema_done"
    /\ sync # <<>>
    /\ \E i \in 1..Len(sync[1].old_trainable) :
          Cardinality(Agreeing(sync[1].old_trainable[i], sync[1].src.trainable_weights)) = 2
    /\ \E i \in 1..Len(sync[1].old_non_trainable) :
          /\ HasPrefix(sync[1].old_non_trainable[i].name)
          /\ Agreeing(sync[1].old_non_trainable[i], sync[1].src.non_trainable_weights) = {}
          /\ Agreeing(sync[1].old_non_trainable[i], sync[1].src.trainable_weights) # {}
          /\ non_trainable_weights[i] = sync[1].old_non_trainable[i]

====
